---- MODULE Spec2Model ----
(***************************************************************************)
(* fix_auth_bug11.py: a script that patches two source files with three    *)
(* text substitutions (two re.sub calls and one str.replace).              *)
(*                                                                         *)
(* A file's text is a sequence of tokens.  A token is either one character *)
(* of whitespace, or a fragment of text that the script's patterns treat   *)
(* as a unit: a literal of one of the patterns, a literal of one of the    *)
(* replacements, or "x", any other text that holds no whitespace and no    *)
(* part of a pattern literal.                                              *)
(*                                                                         *)
(*   route file (server/routes.ts)                                         *)
(*     "V"   // Verify password                                            *)
(*     "I"   if (!isValidPassword) {                                       *)
(*     "}"   }                                                             *)
(*     "G"   // Generate JWT token                                         *)
(*     "C"   // Set session userId for session-based auth                  *)
(*     "A"   req.session.userId = user.id;                                 *)
(*     "S"   req.session?.userId                                           *)
(*     "T"    || req.user?.id      (with its leading blank: after the      *)
(*           blank comes "|", so no \s* of the patterns followed by "}"    *)
(*           or "//" can end inside it)                                    *)
(*   client file (client/src/lib/api.ts)                                   *)
(*     "SIG" export const apiRequest = async (url: string,                 *)
(*           options: RequestInit = {}) => {                               *)
(*     "BH"  // Build headers                                              *)
(*     "CL"  });                                                           *)
(*     "WSC"   with session credentials   (the rest of the comment line)  *)
(*     "HDRS" const headers: Record<string, string> = { ... };             *)
(*     "FETCH" return fetch(url, { ...options, headers,                    *)
(*     "CRED" credentials: 'include', // Send session cookies              *)
(*           (the four hold no "// Build headers" and no "});", so the     *)
(*           pattern sees each of them as other text)                      *)
(*   both                                                                  *)
(*     "nl" a newline, "sp" a blank, "x" other text                        *)
(***************************************************************************)
EXTENDS Naturals, Sequences, FiniteSets

VARIABLES
  routes,   \* the text of server/routes.ts
  api,      \* the text of client/src/lib/api.ts
  rperm,    \* what open() allows on server/routes.ts: "rw", "r" or "none"
  aperm,    \* the same for client/src/lib/api.ts
  content,  \* the script's variable content
  pc,       \* the statement the script is at
  out,      \* the lines printed so far
  before,   \* history: the text the last read returned
  orig,     \* history: the two files as the run found them
  applied   \* history: the fixes whose file write has been done, in order

vars == <<routes, api, rperm, aperm, content, pc, out, before, orig, applied>>

(***************************************************************************)
(* Text helpers.                                                           *)
(***************************************************************************)

\* \s of Python's re: the whitespace characters.
IsSpace(t) == t \in {"nl", "sp"}

RECURSIVE Flatten(_)
Flatten(ss) == IF ss = <<>> THEN <<>> ELSE Head(ss) \o Flatten(Tail(ss))

\* s[i..] starts with the tokens of lit.
StartsAt(s, i, lit) ==
  /\ i + Len(lit) - 1 <= Len(s)
  /\ \A k \in 1..Len(lit) : s[i + k - 1] = lit[k]

(***************************************************************************)
(* Python's re, for the constructs the two patterns use: a literal, ".*?"  *)
(* under re.DOTALL, "\s*", and capture groups.  A pattern is a sequence of *)
(* items; matching is the backtracking search of re: the items in order,   *)
(* a lazy repeat trying the shortest run first, a greedy repeat the        *)
(* longest run first, the first alternative that lets the rest match wins. *)
(***************************************************************************)

Lit(t)      == [k |-> "lit",   t |-> t,  g |-> 0]
LazyAny     == [k |-> "lazy",  t |-> "", g |-> 0]
GreedySpace == [k |-> "space", t |-> "", g |-> 0]
Open(n)     == [k |-> "open",  t |-> "", g |-> n]
Close(n)    == [k |-> "close", t |-> "", g |-> n]

NoMatch == [ok |-> FALSE, end |-> 0, caps |-> <<>>]

NoCaps == [n \in 1..2 |-> [from |-> 0, to |-> 0]]

\* The number of whitespace tokens of s from position i on.
RECURSIVE SpaceRun(_, _)
SpaceRun(s, i) ==
  IF i <= Len(s) /\ IsSpace(s[i]) THEN 1 + SpaceRun(s, i + 1) ELSE 0

IsOk(r) == r.ok

FirstOk(rs) == Head(SelectSeq(rs, IsOk) \o <<NoMatch>>)

RECURSIVE MatchFrom(_, _, _, _, _)
RECURSIVE LazyTry(_, _, _, _, _)
RECURSIVE GreedyTry(_, _, _, _, _, _)

\* Items p[j..] against s from position i on; caps are the groups so far.
MatchFrom(p, j, s, i, caps) ==
  IF j > Len(p) THEN [ok |-> TRUE, end |-> i, caps |-> caps]
  ELSE LET it == p[j] IN
    CASE it.k = "lit" ->
           IF i <= Len(s) /\ s[i] = it.t
           THEN MatchFrom(p, j + 1, s, i + 1, caps)
           ELSE NoMatch
      [] it.k = "open" ->
           MatchFrom(p, j + 1, s, i, [caps EXCEPT ![it.g].from = i])
      [] it.k = "close" ->
           MatchFrom(p, j + 1, s, i, [caps EXCEPT ![it.g].to = i])
      [] it.k = "lazy" -> LazyTry(p, j, s, i, caps)
      [] it.k = "space" -> GreedyTry(p, j, s, i, i + SpaceRun(s, i), caps)

\* ".*?" at item j: the rest of the pattern from position i, else one more
\* token (any token: DOTALL) and again.
LazyTry(p, j, s, i, caps) ==
  FirstOk(<< MatchFrom(p, j + 1, s, i, caps),
            IF i <= Len(s) THEN LazyTry(p, j, s, i + 1, caps) ELSE NoMatch >>)

\* "\s*" at item j, having taken s[lo..i-1]: the rest of the pattern from
\* position i, else one token less and again.
GreedyTry(p, j, s, lo, i, caps) ==
  FirstOk(<< MatchFrom(p, j + 1, s, i, caps),
            IF i > lo THEN GreedyTry(p, j, s, lo, i - 1, caps) ELSE NoMatch >>)

\* re.search from position i: the match at the leftmost start.
RECURSIVE Search(_, _, _)
Search(p, s, i) ==
  IF i > Len(s) + 1 THEN [ok |-> FALSE, start |-> 0, end |-> 0, caps |-> <<>>]
  ELSE LET r == MatchFrom(p, 1, s, i, NoCaps) IN
       IF r.ok THEN [ok |-> TRUE, start |-> i, end |-> r.end, caps |-> r.caps]
       ELSE Search(p, s, i + 1)

\* A replacement template is a sequence of pieces: a group reference or text.
Grp(n)  == [k |-> "grp",  g |-> n, t |-> <<>>]
Text(t) == [k |-> "text", g |-> 0, t |-> t]

RECURSIVE Expand(_, _, _)
Expand(repl, s, caps) ==
  IF repl = <<>> THEN <<>>
  ELSE LET h == Head(repl) IN
       (IF h.k = "grp" THEN SubSeq(s, caps[h.g].from, caps[h.g].to - 1) ELSE h.t)
         \o Expand(Tail(repl), s, caps)

\* re.sub(pattern, repl, s) without a count: every non-overlapping match,
\* left to right, the search resuming where the last match ended.  (Both
\* patterns hold a literal, so no match is empty.)
RECURSIVE SubFrom(_, _, _, _)
SubFrom(p, repl, s, i) ==
  LET m == Search(p, s, i) IN
  IF ~m.ok THEN SubSeq(s, i, Len(s))
  ELSE SubSeq(s, i, m.start - 1) \o Expand(repl, s, m.caps)
         \o SubFrom(p, repl, s, m.end)

Sub(p, repl, s) == SubFrom(p, repl, s, 1)

\* Mutant of Replace: str.replace with count=1, the first occurrence only.
RECURSIVE ReplaceFirstFrom(_, _, _, _)
ReplaceFirstFrom(s, old, new, i) ==
  IF i > Len(s) THEN <<>>
  ELSE IF StartsAt(s, i, old) THEN new \o SubSeq(s, i + Len(old), Len(s))
  ELSE <<s[i]>> \o ReplaceFirstFrom(s, old, new, i + 1)

ReplaceFirst(s, old, new) == ReplaceFirstFrom(s, old, new, 1)

\* str.replace(old, new): every non-overlapping occurrence, left to right.
RECURSIVE ReplaceFrom(_, _, _, _)
ReplaceFrom(s, old, new, i) ==
  IF i > Len(s) THEN <<>>
  ELSE IF StartsAt(s, i, old) THEN new \o ReplaceFrom(s, old, new, i + Len(old))
  ELSE <<s[i]>> \o ReplaceFrom(s, old, new, i + 1)

Replace(s, old, new) == ReplaceFrom(s, old, new, 1)

(***************************************************************************)
(* The three fixes.                                                        *)
(***************************************************************************)

Indent == <<"sp", "sp", "sp", "sp">>

\* Mutant of Pattern1: the whitespace before the comment taken into group 1.
Pattern1SpaceInGroup ==
  << Open(1), Lit("V"), LazyAny, Lit("I"), LazyAny, Lit("}"), GreedySpace,
     Lit("}"), GreedySpace, Close(1), Open(2), Lit("G"), Close(2) >>

\* Mutant of Pattern1: the pattern without its "// Verify password" anchor.
Pattern1Unanchored ==
  << Open(1), Lit("I"), LazyAny, Lit("}"), GreedySpace,
     Lit("}"), Close(1), GreedySpace, Open(2), Lit("G"), Close(2) >>

\* (// Verify password.*?if \(!isValidPassword\) \{.*?\}\s*})\s*(// Generate JWT token)
Pattern1 ==
  << Open(1), Lit("V"), LazyAny, Lit("I"), LazyAny, Lit("}"), GreedySpace,
     Lit("}"), Close(1), GreedySpace, Open(2), Lit("G"), Close(2) >>

\* The text the replacement puts between \1 and \2.
SessionLines ==
  <<"nl", "nl">> \o Indent \o <<"C", "nl">> \o Indent \o <<"A", "nl", "nl">> \o Indent

\* Mutant of Replacement1: the lines put after \2 instead of between \1 and \2.
Replacement1After == << Grp(1), Grp(2), Text(SessionLines) >>

Replacement1 == << Grp(1), Text(SessionLines), Grp(2) >>

Fix1(c) == Sub(Pattern1, Replacement1, c)

AuthCheck == <<"S", "T">>

SessionOnly == <<"S">>

Fix2(c) == Replace(c, AuthCheck, SessionOnly)

\* (export const apiRequest = ... => \{\s*)// Build headers.*?\}\);
Pattern3 ==
  << Open(1), Lit("SIG"), GreedySpace, Close(1), Lit("BH"), LazyAny, Lit("CL") >>

\* Mutant of RequestBlock: the headers object closed with "});" in place of "};".
RequestBlockTwiceClosed ==
  <<"BH", "WSC", "nl", "sp", "sp", "HDRS", "CL", "nl", "nl", "sp", "sp", "FETCH", "nl",
    "sp", "sp", "sp", "sp", "CRED", "nl", "sp", "sp", "CL">>

\* The replacement after \1: "// Build headers with session credentials", the
\* headers object, a blank line, the fetch call with credentials: 'include'.
RequestBlock ==
  <<"BH", "WSC", "nl", "sp", "sp", "HDRS", "nl", "nl", "sp", "sp", "FETCH", "nl",
    "sp", "sp", "sp", "sp", "CRED", "nl", "sp", "sp", "CL">>

\* Mutant of Replacement3: the template without \1, so the signature is lost.
Replacement3NoGroup == << Text(RequestBlock) >>

Replacement3 == << Grp(1), Text(RequestBlock) >>

Fix3(c) == Sub(Pattern3, Replacement3, c)

(***************************************************************************)
(* The files a run may find.  A file is a concatenation of at most         *)
(* MaxPieces (MaxRunPieces for the whole-script specification) pieces; a   *)
(* piece is one token or one of the idioms the patterns look for.          *)
(***************************************************************************)

MaxPieces == 3

MaxRunPieces == 2

MaxRuns == 2

\* "// Verify password", newline, "if (!isValidPassword) {", a statement.
GuardHead == <<"V", "nl", "I", "x">>

\* "}", newline, "}", newline, "// Generate JWT token".
BlockEnd == <<"}", "nl", "}", "nl", "G">>

\* The signature, newline, two blanks, "// Build headers".
HelperHead == <<"SIG", "nl", "sp", "sp", "BH">>

RoutePieces ==
  { <<"V">>, <<"I">>, <<"}">>, <<"nl">>, <<"G">>, <<"x">>, <<"S">>, <<"T">>,
    GuardHead, BlockEnd, AuthCheck }

ApiPieces ==
  { <<"SIG">>, <<"BH">>, <<"CL">>, <<"nl">>, <<"x">>, HelperHead }

Texts(pieces, n) ==
  { Flatten(f) : f \in UNION { [1..k -> pieces] : k \in 0..n } }

\* if (!isValidPassword) { return res.status(401).send('invalid'); }\n}\n  // Generate JWT token
ScenarioRoute ==
  <<"I", "sp", "x", "sp", "}", "nl", "}", "nl", "sp", "sp", "G">>

\* The same with a "// Verify password" line before it.
VerifiedScenarioRoute == <<"V", "nl">> \o ScenarioRoute

SampleRoutes == GuardHead \o BlockEnd \o <<"nl", "x", "S", "T", "x">>

SampleApi == HelperHead \o <<"x", "CL", "nl">>

RouteTexts(n) == Texts(RoutePieces, n) \cup {ScenarioRoute, VerifiedScenarioRoute}

ApiTexts(n) == Texts(ApiPieces, n)

Perms == {"rw", "r", "none"}

\* The files vary one at a time, the other being the sample file.
InitFiles(n) ==
  /\ \/ routes \in RouteTexts(n) /\ api = SampleApi
     \/ routes = SampleRoutes /\ api \in ApiTexts(n)
  /\ orig = [routes |-> routes, api |-> api]
  /\ content = <<>>
  /\ before = <<>>
  /\ out = <<>>
  /\ applied = <<>>

(***************************************************************************)
(* The script, statement by statement.                                     *)
(***************************************************************************)

Init ==
  /\ InitFiles(MaxRunPieces)
  /\ rperm \in Perms
  /\ aperm \in Perms
  /\ pc = "start"

Say(line, next) ==
  /\ out' = Append(out, line)
  /\ pc' = next
  /\ UNCHANGED <<routes, api, rperm, aperm, content, before, orig, applied>>

\* Mutant of ReadFile: a failed open is swallowed and the script goes on with
\* an empty text.
ReadFileOrEmpty(text, perm, next) ==
  /\ pc' = next
  /\ content' = IF perm = "none" THEN <<>> ELSE text
  /\ before' = content'
  /\ UNCHANGED <<routes, api, rperm, aperm, out, orig, applied>>

\* with open(path, 'r') as f: content = f.read()
ReadFile(text, perm, next) ==
  /\ IF perm = "none"
     THEN pc' = "crashed" /\ UNCHANGED <<content, before>>
     ELSE pc' = next /\ content' = text /\ before' = text
  /\ UNCHANGED <<routes, api, rperm, aperm, out, orig, applied>>

Transform(text, next) ==
  /\ content' = text
  /\ pc' = next
  /\ UNCHANGED <<routes, api, rperm, aperm, out, before, orig, applied>>

\* Mutant of WriteRoutes: the file is written only when the text has changed.
WriteRoutesIfChanged(fix, next) ==
  /\ IF rperm # "rw"
     THEN pc' = "crashed" /\ UNCHANGED <<routes, applied>>
     ELSE IF content = before
     THEN pc' = next /\ UNCHANGED <<routes, applied>>
     ELSE pc' = next /\ routes' = content /\ applied' = Append(applied, fix)
  /\ UNCHANGED <<api, rperm, aperm, content, out, before, orig>>

\* with open('server/routes.ts', 'w') as f: f.write(content)
WriteRoutes(fix, next) ==
  /\ IF rperm = "rw"
     THEN pc' = next /\ routes' = content /\ applied' = Append(applied, fix)
     ELSE pc' = "crashed" /\ UNCHANGED <<routes, applied>>
  /\ UNCHANGED <<api, rperm, aperm, content, out, before, orig>>

\* with open('client/src/lib/api.ts', 'w') as f: f.write(content)
WriteApi(fix, next) ==
  /\ IF aperm = "rw"
     THEN pc' = next /\ api' = content /\ applied' = Append(applied, fix)
     ELSE pc' = "crashed" /\ UNCHANGED <<api, applied>>
  /\ UNCHANGED <<routes, rperm, aperm, content, out, before, orig>>

Start == pc = "start" /\ Say("start", "announce1")

Fix1Announce == pc = "announce1" /\ Say("announce1", "read1")

Fix1Read == pc = "read1" /\ ReadFile(routes, rperm, "sub1")

\* Mutant of Fix1Sub: a pattern that is not found ends the run.
Fix1SubOrRaise ==
  /\ pc = "sub1"
  /\ IF Fix1(content) = content
     THEN /\ pc' = "crashed"
          /\ UNCHANGED <<routes, api, rperm, aperm, content, out, before, orig, applied>>
     ELSE Transform(Fix1(content), "write1")

Fix1Sub == pc = "sub1" /\ Transform(Fix1(content), "write1")

Fix1Write == pc = "write1" /\ WriteRoutes(1, "complete1")

Fix1Complete == pc = "complete1" /\ Say("complete1", "announce2")

Fix2Announce == pc = "announce2" /\ Say("announce2", "read2")

Fix2Read == pc = "read2" /\ ReadFile(routes, rperm, "replace2")

Fix2Replace == pc = "replace2" /\ Transform(Fix2(content), "write2")

Fix2Write == pc = "write2" /\ WriteRoutes(2, "complete2")

Fix2Complete == pc = "complete2" /\ Say("complete2", "announce3")

Fix3Announce == pc = "announce3" /\ Say("announce3", "read3")

Fix3Read == pc = "read3" /\ ReadFile(api, aperm, "sub3")

Fix3Sub == pc = "sub3" /\ Transform(Fix3(content), "write3")

Fix3Write == pc = "write3" /\ WriteApi(3, "complete3")

Fix3Complete == pc = "complete3" /\ Say("complete3", "summary")

Summary == pc = "summary" /\ Say("summary", "reminder")

Reminder == pc = "reminder" /\ Say("reminder", "done")

Next ==
  \/ Start
  \/ Fix1Announce \/ Fix1Read \/ Fix1Sub \/ Fix1Write \/ Fix1Complete
  \/ Fix2Announce \/ Fix2Read \/ Fix2Replace \/ Fix2Write \/ Fix2Complete
  \/ Fix3Announce \/ Fix3Read \/ Fix3Sub \/ Fix3Write \/ Fix3Complete
  \/ Summary \/ Reminder

Spec == Init /\ [][Next]_vars

(***************************************************************************)
(* The fixes as operations on the files: each reads its file, transforms   *)
(* the text and writes it back.  SpecOrder applies each fix at most once,  *)
(* in any order; SpecAgain applies one fix again and again.                *)
(***************************************************************************)

InitOps ==
  /\ InitFiles(MaxPieces)
  /\ rperm = "rw"
  /\ aperm = "rw"
  /\ pc = "ops"

ApplyRoutes(fix, text) ==
  /\ before' = routes
  /\ content' = text
  /\ routes' = text
  /\ applied' = Append(applied, fix)
  /\ UNCHANGED <<api, rperm, aperm, pc, out, orig>>

ApplyApi(fix, text) ==
  /\ before' = api
  /\ content' = text
  /\ api' = text
  /\ applied' = Append(applied, fix)
  /\ UNCHANGED <<routes, rperm, aperm, pc, out, orig>>

Done(fix) == \E i \in 1..Len(applied) : applied[i] = fix

ApplyFix1 == ~Done(1) /\ ApplyRoutes(1, Fix1(routes))

ApplyFix2 == ~Done(2) /\ ApplyRoutes(2, Fix2(routes))

\* Mutant of ApplyFix3: the third fix opens server/routes.ts.
ApplyFix3ToRoutes == ~Done(3) /\ ApplyRoutes(3, Fix3(routes))

ApplyFix3 == ~Done(3) /\ ApplyApi(3, Fix3(api))

NextOrder == ApplyFix1 \/ ApplyFix2 \/ ApplyFix3

SpecOrder == InitOps /\ [][NextOrder]_vars

Only(fix) == \A i \in 1..Len(applied) : applied[i] = fix

Again(fix) == Len(applied) < MaxRuns /\ Only(fix)

RepeatFix1 == Again(1) /\ ApplyRoutes(1, Fix1(routes))

RepeatFix2 == Again(2) /\ ApplyRoutes(2, Fix2(routes))

RepeatFix3 == Again(3) /\ ApplyApi(3, Fix3(api))

NextAgain == RepeatFix1 \/ RepeatFix2 \/ RepeatFix3

SpecAgain == InitOps /\ [][NextAgain]_vars

(***************************************************************************)
(* What the properties speak of, stated on the text itself and not by way  *)
(* of the matcher.                                                         *)
(***************************************************************************)

Count(s, lit) == Cardinality({ i \in 1..Len(s) : StartsAt(s, i, lit) })

Holds(s, t) == \E i \in 1..Len(s) : s[i] = t

\* The position of the first non-whitespace token after position i.
AfterSpace(s, i) == i + 1 + SpaceRun(s, i + 1)

Least(S) == CHOOSE n \in S : \A m \in S : n <= m

\* "}" whitespace "}" whitespace "// Generate JWT token" starts at position k.
EndsGuard(s, k) ==
  /\ k <= Len(s) /\ s[k] = "}"
  /\ AfterSpace(s, k) <= Len(s) /\ s[AfterSpace(s, k)] = "}"
  /\ AfterSpace(s, AfterSpace(s, k)) <= Len(s)
  /\ s[AfterSpace(s, AfterSpace(s, k))] = "G"

GuardEnds(s) == { k \in 1..Len(s) : EndsGuard(s, k) }

\* The first anchor block of s from position from on: the first
\* "// Verify password", the first "if (!isValidPassword) {" after it, the first
\* "}" "}" "// Generate JWT token" after that.  brace is the position of the
\* second "}", gen that of the comment.
Anchor(s, from) ==
  LET vs == { v \in from..Len(s) : s[v] = "V" }
      is == { i \in from..Len(s) : s[i] = "I" /\ vs # {} /\ i > Least(vs) }
      ks == { k \in GuardEnds(s) : is # {} /\ k > Least(is) }
  IN IF ks = {} THEN [ok |-> FALSE, brace |-> 0, gen |-> 0]
     ELSE [ok |-> TRUE, brace |-> AfterSpace(s, Least(ks)),
           gen |-> AfterSpace(s, AfterSpace(s, Least(ks)))]

\* s from position from on, with the session lines in place of the whitespace
\* between the second "}" and the comment of every anchor block.
RECURSIVE WithSessionLines(_, _)
WithSessionLines(s, from) ==
  LET a == Anchor(s, from) IN
  IF ~a.ok THEN SubSeq(s, from, Len(s))
  ELSE SubSeq(s, from, a.brace) \o SessionLines \o <<"G">>
         \o WithSessionLines(s, a.gen + 1)

\* The first span of s from position from on that step 4.3 rewrites: the
\* signature, whitespace, "// Build headers" (at body), and the first "});"
\* after it (at close).
Span(s, from) ==
  LET ss == { i \in from..Len(s) :
                /\ s[i] = "SIG"
                /\ AfterSpace(s, i) <= Len(s) /\ s[AfterSpace(s, i)] = "BH"
                /\ \E c \in AfterSpace(s, i)..Len(s) : s[c] = "CL" }
  IN IF ss = {} THEN [ok |-> FALSE, body |-> 0, close |-> 0]
     ELSE [ok |-> TRUE, body |-> AfterSpace(s, Least(ss)),
           close |-> Least({ c \in AfterSpace(s, Least(ss))..Len(s) : s[c] = "CL" })]

RECURSIVE WithRequestBlock(_, _)
WithRequestBlock(s, from) ==
  LET a == Span(s, from) IN
  IF ~a.ok THEN SubSeq(s, from, Len(s))
  ELSE SubSeq(s, from, a.body - 1) \o RequestBlock \o WithRequestBlock(s, a.close + 1)

\* "req.session.userId = user.id;" stands before "// Generate JWT token", with
\* nothing but whitespace between them.
SessionLineBeforeToken(s) ==
  \E i \in 1..Len(s) :
    s[i] = "A" /\ AfterSpace(s, i) <= Len(s) /\ s[AfterSpace(s, i)] = "G"

(***************************************************************************)
(* Properties.                                                             *)
(***************************************************************************)

\* C1 as stated: after step 4.2 alone, the file holds no occurrence of
\* "req.session?.userId || req.user?.id" and as many occurrences of
\* "req.session?.userId" as it held occurrences of the expression before.
C1_NoneLeftAndNReplaced ==
  applied = <<2>> =>
    /\ Count(routes, AuthCheck) = 0
    /\ Count(routes, SessionOnly) = Count(orig.routes, AuthCheck)

\* C1 amended: after step 4.2 alone, every one of the N occurrences has lost its
\* " || req.user?.id"; the file holds as many "req.session?.userId" as before
\* (the N of the occurrences and those that stood alone), and the expression
\* occurs once for every occurrence that was followed by a second
\* " || req.user?.id"; so none is left and N are found exactly when no
\* occurrence was followed by one and no "req.session?.userId" stood alone.
C1_EveryOccurrenceShortened ==
  applied = <<2>> =>
    /\ Len(routes) = Len(orig.routes) - Count(orig.routes, AuthCheck)
    /\ Count(routes, SessionOnly) = Count(orig.routes, SessionOnly)
    /\ Count(routes, AuthCheck) = Count(orig.routes, AuthCheck \o <<"T">>)

C1_ThreeReplaced ==
  /\ applied = <<2>>
  /\ Count(orig.routes, AuthCheck) = 3
  /\ Count(routes, AuthCheck) = 0
  /\ Count(routes, SessionOnly) = 3

\* C2 as stated: step 4.1 on the scenario file (no "// Verify password" in it)
\* leaves "req.session.userId = user.id;" before "// Generate JWT token".
C2_ScenarioGetsSessionLine ==
  (applied = <<1>> /\ orig.routes = ScenarioRoute) => SessionLineBeforeToken(routes)

\* C2 amended: step 4.1 leaves the scenario file as it is; on the scenario file
\* with a "// Verify password" line before it, it puts the session lines
\* between the second "}" and "// Generate JWT token".
C2_ScenarioNeedsVerifyComment ==
  applied = <<1>> =>
    /\ orig.routes = ScenarioRoute => routes = ScenarioRoute
    /\ orig.routes = VerifiedScenarioRoute =>
         /\ routes = <<"V", "nl", "I", "sp", "x", "sp", "}", "nl", "}">>
                       \o SessionLines \o <<"G">>
         /\ SessionLineBeforeToken(routes)

C2_VerifiedScenarioPatched ==
  /\ applied = <<1>>
  /\ orig.routes = VerifiedScenarioRoute
  /\ SessionLineBeforeToken(routes)

ConsoleLines ==
  <<"start", "announce1", "complete1", "announce2", "complete2", "announce3",
    "complete3", "summary", "reminder">>

Printed(line) == Holds(out, line)

\* C5: a file that cannot be opened ends the run there and nothing is undone.
\* With the client file unopenable, the run ends at the read of step 4.3: the
\* route file is as steps 4.1 and 4.2 wrote it, the client file is as found,
\* and neither step 4.3's completion line nor the summary is printed.  With
\* the route file unopenable, the run ends at the read of step 4.1 and no
\* file is ever written.
C5_FailedOpenAbortsWithoutRollback ==
  /\ aperm = "none" =>
       /\ pc \notin {"sub3", "write3", "complete3", "summary", "reminder", "done"}
       /\ api = orig.api
       /\ ~Printed("complete3") /\ ~Printed("summary")
       /\ (pc = "crashed" /\ applied = <<1, 2>>) =>
            /\ routes = Fix2(Fix1(orig.routes))
            /\ out = SubSeq(ConsoleLines, 1, 6)
  /\ rperm = "none" =>
       /\ pc \in {"start", "announce1", "read1", "crashed"}
       /\ applied = <<>>
       /\ routes = orig.routes /\ api = orig.api
       /\ pc = "crashed" => out = SubSeq(ConsoleLines, 1, 2)

C5_ClientOpenFailedAfterRouteRewritten ==
  /\ pc = "crashed"
  /\ aperm = "none"
  /\ applied = <<1, 2>>
  /\ routes # orig.routes
  /\ routes # Fix1(orig.routes)

\* C6: with both files readable and writable the run never fails and can always
\* take its next step until it is done; what it prints is a prefix of the one
\* fixed sequence of lines, all of it once done, whatever the files hold; and a
\* step's completion line is printed only after that step's write.
C6_SameOutputWhateverTheFiles ==
  (rperm = "rw" /\ aperm = "rw") =>
    /\ pc # "crashed"
    /\ pc = "done" \/ ENABLED Next
    /\ Len(out) <= Len(ConsoleLines) /\ out = SubSeq(ConsoleLines, 1, Len(out))
    /\ pc = "done" => out = ConsoleLines /\ applied = <<1, 2, 3>>
    /\ Printed("complete1") => Done(1)
    /\ Printed("complete2") => Done(2)
    /\ Printed("complete3") => Done(3)

C6_DoneWithNothingMatched ==
  /\ pc = "done"
  /\ out = ConsoleLines
  /\ routes = orig.routes
  /\ orig.routes # <<>>
  /\ ~Anchor(orig.routes, 1).ok
  /\ Count(orig.routes, AuthCheck) = 0

\* C7: a step whose pattern is not found in the text it read writes that same
\* text back: the file is written (the write is in the history) and its text
\* is what it was before the step.
C7_NoMatchRewritesSameText ==
  /\ (pc = "complete1" /\ ~Anchor(before, 1).ok) =>
       routes = before /\ applied = <<1>>
  /\ (pc = "complete2" /\ Count(before, AuthCheck) = 0) =>
       routes = before /\ applied = <<1, 2>>
  /\ (pc = "complete3" /\ ~Span(before, 1).ok) =>
       api = before /\ applied = <<1, 2, 3>>

C7_NearMissRewritten ==
  /\ pc = "complete1"
  /\ ~Anchor(before, 1).ok
  /\ Holds(before, "V") /\ Holds(before, "I") /\ Holds(before, "G")
  /\ routes = before
  /\ applied = <<1>>

\* C8: whatever the order in which the fixes were applied, the route file is
\* the result of those of steps 4.1 and 4.2 that were applied, step 4.1 first,
\* and the client file the result of step 4.3 if it was applied: steps 4.1
\* and 4.2 commute, step 4.3 leaves the route file alone and steps 4.1 and
\* 4.2 the client file.
C8_OrderIndependent ==
  /\ routes = IF Done(1) /\ Done(2) THEN Fix2(Fix1(orig.routes))
              ELSE IF Done(1) THEN Fix1(orig.routes)
              ELSE IF Done(2) THEN Fix2(orig.routes)
              ELSE orig.routes
  /\ api = IF Done(3) THEN Fix3(orig.api) ELSE orig.api

C8_ReverseOrderSameFiles ==
  /\ applied = <<2, 3, 1>>
  /\ routes \notin {orig.routes, Fix1(orig.routes), Fix2(orig.routes)}
  /\ routes = Fix2(Fix1(orig.routes))
  /\ api # orig.api

C10_Fix3Idempotent ==
  applied = <<3, 3>> =>
    /\ api = before
    /\ Span(orig.api, 1).ok =>
         /\ Span(before, 1).ok
         /\ Span(before, 1).body = Span(orig.api, 1).body
         /\ SubSeq(before, Span(before, 1).body, Span(before, 1).close) = RequestBlock

C10_RewrittenTwice ==
  /\ applied = <<3, 3>>
  /\ Span(orig.api, 1).ok
  /\ before # orig.api
  /\ api = before

====
